---------------------------- MODULE Spec2Model ----------------------------
(***************************************************************************)
(* A model of langid.c: the classification engine of liblangid.c           *)
(* (automaton walk, Naive Bayes scoring, argmax, normalisation, name       *)
(* lookup), the load/destroy lifecycle of a LanguageIdentifier, and the    *)
(* grep mode of the command-line driver langid.c.                          *)
(*                                                                         *)
(* Conventions.                                                            *)
(*  - C arrays are functions over 0..n-1.                                  *)
(*  - `unsigned` values are kept modulo 2^16: TLC's integers have 32 bits, *)
(*    so the 32-bit width of the program is scaled down; no count of the   *)
(*    model comes near either width.                                       *)
(*  - `double` log-probabilities are modelled as exact integers (finite    *)
(*    values, no rounding, no NaN or infinity).                            *)
(*  - A byte is a value of 0..MaxByte: the model keeps MaxByte+1 columns   *)
(*    of the 256-column transition table.                                  *)
(*  - A class name is a sequence of one-character strings; the C string's  *)
(*    terminating NUL is implicit at the end of the sequence.              *)
(***************************************************************************)
EXTENDS Integers, Sequences, FiniteSets, TLC

\* ------------------------------------------------------------------ bounds
\* The largest byte value of a text (the program's alphabet is 0..255).
MaxByte == 1
\* The longest text handed to a classification call.
MaxLen == 2
\* The longest text of two callers classifying at the same time.
MaxConcLen == 2
\* The most lines the driver reads from its main input.
MaxLines == 2
\* The longest array handed to logprob_to_pred_n and normalize_logprobs_n.
MaxLangs == 3
\* The largest magnitude of an entry of such an array.
MaxVal == 1

Bytes == 0..MaxByte
\* The row width of the transition table, 256 in liblangid.h.
RowWidth == MaxByte + 1

UINT_MOD == 2^16
\* (unsigned)-1, the value of (LangIndex)-1.
UINT_MAX == UINT_MOD - 1
NOT_FOUND == UINT_MAX

RECURSIVE TextsOfLen(_)
TextsOfLen(n) ==
    IF n = 0 THEN {<<>>}
    ELSE {Append(t, b) : t \in TextsOfLen(n - 1), b \in Bytes}
Texts == UNION {TextsOfLen(n) : n \in 0..MaxLen}

\* ----------------------------------------------------------------- state
VARIABLES
    \* the engine: one LanguageIdentifier and its caller
    lid,        \* the LanguageIdentifier's tables and counts
    sv, fv,     \* lid->sv and lid->fv, the scratch sparse sets
    logprobs,   \* the logprobs array the last call filled (the caller's
                \* buffer, or identify_index's local array)
    text,       \* the text of the last classification call
    op,         \* the last classification call ("none" before the first)
    ret,        \* what the last classification call returned
    \* a caller of logprob_to_pred_n and normalize_logprobs_n
    vec,        \* the caller's array of log-probabilities
    orig,       \* the array as the caller first had it
    before,     \* the array before the last normalize_logprobs_n
    nnorm,      \* how many times normalize_logprobs_n was applied to vec
    pop,        \* the caller's last call ("none" before the first)
    pret,       \* what logprob_to_pred_n last returned
    \* the lifecycle of one LanguageIdentifier
    file,       \* the model path given to load_identifier and what it names
    pcL,        \* "start", "loaded", "destroyed", "exited" or "crashed"
    msg,        \* the unpacked message the identifier's tables point into
    protobuf_model, \* lid->protobuf_model: "NULL" or "msg"
    acquired,   \* per resource, how many times it was acquired
    released,   \* per resource, how many times it was released
    oob,        \* a classification call read a table outside its length
    \* two callers classifying at the same time
    cmode,      \* "own": a LanguageIdentifier per caller over the same tables;
                \* "mutex": one LanguageIdentifier under a lock;
                \* "shared": one LanguageIdentifier, no lock
    ctext,      \* per caller, the text it classifies
    cpc,        \* per caller, where its identify_logprobs call stands
    ci, cj,     \* per caller, text_to_fv's loop indices i and j
    cs,         \* per caller, text_to_fv's automaton state s
    csv, cfv,   \* per LanguageIdentifier, its sets sv and fv
    clogprobs,  \* per caller, its logprobs array
    cseen,      \* per caller, the feature counts its fv_to_logprob read
    lock,       \* the caller holding the lock, 0 when free
    \* the command-line driver in grep mode
    opt,        \* the option globals set by getopt: en, flang, p_flag,
                \* min_logprob, verbose, fin, fout, freject
    en_index, f_index,  \* the indices of en and flang, (LangIndex)-1 if none
    gpc,        \* "init", "loop", "done" or "exit" (exit(-1))
    total,      \* the lines read from the main input
    filtered,   \* the counter filtered
    inRead,     \* the lines read from the -i file
    inEof,      \* the -i file has ended
    detectout,  \* the numbers of the main input's lines written to the output
    out,        \* the numbers of the -i file's lines written to the -o file
    rejectout,  \* the lines written to the -j file, as <<file, number>>
    indexed     \* the indices likely_enough has read logprobs at

engVars == <<lid, sv, fv, logprobs, text, op, ret>>
pureVars == <<vec, orig, before, nnorm, pop, pret>>
lifeVars == <<file, pcL, msg, protobuf_model, acquired, released, oob>>
concVars == <<cmode, ctext, cpc, ci, cj, cs, csv, cfv, clogprobs, cseen, lock>>
grepVars == <<opt, en_index, f_index, gpc, total, filtered, inRead, inEof,
              detectout, out, rejectout, indexed>>
vars == <<engVars, pureVars, lifeVars, concVars, grepVars>>

\* ---------------------------------------------- the parts not in use
\* The engine is not in use.
EngIdle ==
    /\ lid = <<>>
    /\ sv = <<>>
    /\ fv = <<>>
    /\ logprobs = <<>>
    /\ text = <<>>
    /\ op = "none"
    /\ ret = 0

\* No caller of logprob_to_pred_n and normalize_logprobs_n.
PureIdle ==
    /\ vec = <<>>
    /\ orig = <<>>
    /\ before = <<>>
    /\ nnorm = 0
    /\ pop = "none"
    /\ pret = 0

\* No load_identifier or destroy_identifier.
LifeIdle ==
    /\ file = "none"
    /\ pcL = "idle"
    /\ msg = "NULL"
    /\ protobuf_model = "NULL"
    /\ acquired = <<>>
    /\ released = <<>>
    /\ oob = FALSE

\* No concurrent callers.
ConcIdle ==
    /\ cmode = "none"
    /\ ctext = <<>>
    /\ cpc = <<>>
    /\ ci = <<>>
    /\ cj = <<>>
    /\ cs = <<>>
    /\ csv = <<>>
    /\ cfv = <<>>
    /\ clogprobs = <<>>
    /\ cseen = <<>>
    /\ lock = 0

\* The driver is not running.
GrepIdle ==
    /\ opt = <<>>
    /\ en_index = 0
    /\ f_index = 0
    /\ gpc = "idle"
    /\ total = 0
    /\ filtered = 0
    /\ inRead = 0
    /\ inEof = FALSE
    /\ detectout = <<>>
    /\ out = <<>>
    /\ rejectout = <<>>
    /\ indexed = {}

\* ------------------------------------------------------------ sparse set
\* A Set of capacity cap: dense[0..cap-1], counts[0..cap-1] and members.
\* alloc_set leaves the arrays uninitialised: g is what they happen to hold.
alloc_set(cap, g) ==
    [members |-> 0,
     dense   |-> [i \in 0..(cap - 1) |-> g],
     counts  |-> [i \in 0..(cap - 1) |-> g]]

clear(s) == [s EXCEPT !.members = 0]

IsActive(s, key) == \E i \in 0..(s.members - 1) : s.dense[i] = key

SlotOf(s, key) == CHOOSE i \in 0..(s.members - 1) : s.dense[i] = key

add(s, key, val) ==
    IF IsActive(s, key)
    THEN [s EXCEPT !.counts[SlotOf(s, key)] = (@ + val) % UINT_MOD]
    ELSE [s EXCEPT !.dense[s.members] = key,
                   !.counts[s.members] = val % UINT_MOD,
                   !.members = @ + 1]

\* The count of key in s, 0 when key is not active.
get(s, key) == IF IsActive(s, key) THEN s.counts[SlotOf(s, key)] ELSE 0

\* --------------------------------------------------------- built-in models
\* A sequence as a C array: indices from 0.
Arr(seq) == [i \in 0..(Len(seq) - 1) |-> seq[i + 1]]

\* The tables of model.h that get_default_identifier points into: the
\* contents of NUM_FEATS, NUM_LANGS, NUM_STATES, tk_nextmove, tk_output_c,
\* tk_output_s, tk_output, nb_pc, nb_ptc (row-major, num_feats rows of
\* num_langs entries) and nb_classes. Four automata stand for them:
\*  - byte 1 leads to state 1, which completes feature 0, any other byte to
\*    state 0;
\*  - a byte b leads from state s to state (s + b) % 2; state 0 completes
\*    feature 1 and state 1 completes features 0 and 1;
\*  - the matcher of the sequences <<1>> and <<1, 1>>: state 1 completes
\*    feature 0, state 2 completes features 0 and 1, any other byte leads
\*    back to state 0;
\*  - byte 0 leads to state 1, which no byte leaves and which lists
\*    feature 0 twice.
BuiltinTables ==
    { [num_feats |-> 1, num_langs |-> 2, num_states |-> 2,
       tk_nextmove |-> [s \in 0..1 |-> [b \in Bytes |-> IF b = 1 THEN 1 ELSE 0]],
       tk_output_c |-> Arr(<<0, 1>>), tk_output_s |-> Arr(<<0, 0>>),
       tk_output |-> Arr(<<0>>),
       nb_pc |-> Arr(<<0, 0>>), nb_ptc |-> Arr(<<1, -1>>),
       nb_classes |-> Arr(<< <<"e", "n">>, <<"d", "e">> >>)],
      [num_feats |-> 2, num_langs |-> 3, num_states |-> 2,
       tk_nextmove |-> [s \in 0..1 |-> [b \in Bytes |-> (s + b) % 2]],
       tk_output_c |-> Arr(<<1, 2>>), tk_output_s |-> Arr(<<0, 1>>),
       tk_output |-> Arr(<<1, 0, 1>>),
       nb_pc |-> Arr(<<-2, -1, -1>>), nb_ptc |-> Arr(<<2, -1, 0, -3, 1, 2>>),
       nb_classes |-> Arr(<< <<"d", "e">>, <<"e", "n">>, <<"E", "n">> >>)],
      [num_feats |-> 2, num_langs |-> 2, num_states |-> 3,
       tk_nextmove |-> [s \in 0..2 |-> [b \in Bytes |->
                           IF b # 1 THEN 0 ELSE IF s = 0 THEN 1 ELSE 2]],
       tk_output_c |-> Arr(<<0, 1, 2>>), tk_output_s |-> Arr(<<0, 0, 1>>),
       tk_output |-> Arr(<<0, 0, 1>>),
       nb_pc |-> Arr(<<-1, 0>>), nb_ptc |-> Arr(<<1, -1, -2, 3>>),
       nb_classes |-> Arr(<< <<"e", "n">>, <<"e">> >>)],
      [num_feats |-> 2, num_langs |-> 2, num_states |-> 2,
       tk_nextmove |-> [s \in 0..1 |-> [b \in Bytes |-> IF b = 0 THEN 1 ELSE s]],
       tk_output_c |-> Arr(<<0, 2>>), tk_output_s |-> Arr(<<0, 0>>),
       tk_output |-> Arr(<<0, 0>>),
       nb_pc |-> Arr(<<1, 1>>), nb_ptc |-> Arr(<<-1, 2, 0, 0>>),
       nb_classes |-> Arr(<< <<"f", "r">>, <<"e", "n">> >>)] }

\* ---------------------------------------------------------------- engine
\* text_to_fv, first loop: from state s, consume text[i..] and count each
\* resulting state in sv.
RECURSIVE WalkFrom(_, _, _, _, _)
WalkFrom(l, t, i, s, set) ==
    IF i > Len(t) THEN set
    ELSE LET s2 == l.tk_nextmove[s][t[i]]
         IN  WalkFrom(l, t, i + 1, s2, add(set, s2, 1))

\* text_to_fv, inner loop: add c to each feature state m lists, from j on.
RECURSIVE EmitFrom(_, _, _, _, _)
EmitFrom(l, m, c, j, set) ==
    IF j >= l.tk_output_c[m] THEN set
    ELSE EmitFrom(l, m, c, j + 1, add(set, l.tk_output[l.tk_output_s[m] + j], c))

\* text_to_fv, second loop: over the members of the state set, from i on.
RECURSIVE ConvertFrom(_, _, _, _)
ConvertFrom(l, set, i, fset) ==
    IF i >= set.members THEN fset
    ELSE ConvertFrom(l, set, i + 1,
                     EmitFrom(l, set.dense[i], set.counts[i], 0, fset))

\* text_to_fv without its two clear calls.
text_to_fv_noclear(l, t, s, f) ==
    LET sv1 == WalkFrom(l, t, 1, 0, s)
    IN  [sv |-> sv1, fv |-> ConvertFrom(l, sv1, 0, f)]

\* text_to_fv recording the state before each transition.
RECURSIVE WalkFromBefore(_, _, _, _, _)
WalkFromBefore(l, t, i, s, set) ==
    IF i > Len(t) THEN set
    ELSE WalkFromBefore(l, t, i + 1, l.tk_nextmove[s][t[i]], add(set, s, 1))

text_to_fv_before(l, t, s, f) ==
    LET sv1 == WalkFromBefore(l, t, 1, 0, clear(s))
    IN  [sv |-> sv1, fv |-> ConvertFrom(l, sv1, 0, clear(f))]

\* text_to_fv: the sets sv and fv after the call.
text_to_fv(l, t, s, f) ==
    LET sv1 == WalkFrom(l, t, 1, 0, clear(s))
    IN  [sv |-> sv1, fv |-> ConvertFrom(l, sv1, 0, clear(f))]

\* fv_to_logprob, second loop: over the members of the feature set, from i on.
RECURSIVE ScoreFrom(_, _, _, _)
ScoreFrom(l, fset, i, lp) ==
    IF i >= fset.members THEN lp
    ELSE ScoreFrom(l, fset, i + 1,
             [j \in DOMAIN lp |->
                 lp[j] + fset.counts[i] * l.nb_ptc[fset.dense[i] * l.num_langs + j]])

\* fv_to_logprob reading nb_ptc column-major.
RECURSIVE ScoreFromColumns(_, _, _, _)
ScoreFromColumns(l, fset, i, lp) ==
    IF i >= fset.members THEN lp
    ELSE ScoreFromColumns(l, fset, i + 1,
             [j \in DOMAIN lp |->
                 lp[j] + fset.counts[i] * l.nb_ptc[j * l.num_feats + fset.dense[i]]])

fv_to_logprob_columns(l, fset) ==
    ScoreFromColumns(l, fset, 0, [i \in 0..(l.num_langs - 1) |-> l.nb_pc[i]])

\* fv_to_logprob: the logprob array after the call.
fv_to_logprob(l, fset) ==
    ScoreFrom(l, fset, 0, [i \in 0..(l.num_langs - 1) |-> l.nb_pc[i]])

\* logprob_to_pred_n, the loop from i on with the best index m so far.
RECURSIVE PredFrom(_, _, _, _)
PredFrom(lp, n, i, m) ==
    IF i >= n THEN m
    ELSE PredFrom(lp, n, i + 1, IF lp[i] > lp[m] THEN i ELSE m)

\* logprob_to_pred_n with >= for >.
RECURSIVE PredFromLast(_, _, _, _)
PredFromLast(lp, n, i, m) ==
    IF i >= n THEN m
    ELSE PredFromLast(lp, n, i + 1, IF lp[i] >= lp[m] THEN i ELSE m)

logprob_to_pred_n_last(lp, n) == PredFromLast(lp, n, 1, 0)

logprob_to_pred_n(lp, n) == PredFrom(lp, n, 1, 0)

logprob_to_pred(l, lp) == logprob_to_pred_n(lp, l.num_langs)

\* identify_logprobs: the scratch sets and the logprobs buffer after the call.
identify_logprobs(l, t, s, f) ==
    LET sets == text_to_fv(l, t, s, f)
    IN  [sv |-> sets.sv, fv |-> sets.fv, logprobs |-> fv_to_logprob(l, sets.fv)]

\* The feature indices and the language indices of a LanguageIdentifier.
Features(l) == 0..(l.num_feats - 1)
Langs(l) == 0..(l.num_langs - 1)

get_lang_name(l, i) == l.nb_classes[i]

\* likeliest: the LikelyLanguage of a logprobs array.
likeliest(l, lp) ==
    LET i == logprob_to_pred(l, lp)
    IN  [i |-> i, lang |-> l.nb_classes[i], logprob |-> lp[i]]

\* ------------------------------------------------------- engine: actions
\* get_default_identifier over one of the built-in tables, with whatever the
\* freshly allocated arrays hold.
Garbage == {0, 7}

get_default_identifier(tables, g) ==
    /\ lid = tables
    /\ sv = alloc_set(tables.num_states, g)
    /\ fv = alloc_set(tables.num_feats, g)

EngInit ==
    /\ \E tables \in BuiltinTables, g \in Garbage : get_default_identifier(tables, g)
    /\ logprobs = [i \in 0..(lid.num_langs - 1) |-> 0]
    /\ text = <<>>
    /\ op = "none"
    /\ ret = 0

\* identify_logprobs(lid, t, |t|, logprobs) with the caller's buffer.
IdentifyLogprobs(t) ==
    LET r == identify_logprobs(lid, t, sv, fv)
    IN  /\ sv' = r.sv
        /\ fv' = r.fv
        /\ logprobs' = r.logprobs
        /\ text' = t
        /\ op' = "identify_logprobs"
        /\ ret' = 0
        /\ UNCHANGED lid
        /\ UNCHANGED <<pureVars, lifeVars, concVars, grepVars>>

\* identify_index(lid, t, |t|): the logprobs are a local array.
IdentifyIndex(t) ==
    LET r == identify_logprobs(lid, t, sv, fv)
    IN  /\ sv' = r.sv
        /\ fv' = r.fv
        /\ logprobs' = r.logprobs
        /\ text' = t
        /\ op' = "identify_index"
        /\ ret' = logprob_to_pred(lid, r.logprobs)
        /\ UNCHANGED lid
        /\ UNCHANGED <<pureVars, lifeVars, concVars, grepVars>>

\* identify(lid, t, |t|): the name of identify_index's language.
Identify(t) ==
    LET r == identify_logprobs(lid, t, sv, fv)
    IN  /\ sv' = r.sv
        /\ fv' = r.fv
        /\ logprobs' = r.logprobs
        /\ text' = t
        /\ op' = "identify"
        /\ ret' = get_lang_name(lid, logprob_to_pred(lid, r.logprobs))
        /\ UNCHANGED lid
        /\ UNCHANGED <<pureVars, lifeVars, concVars, grepVars>>

\* ------------------------------------------- load_identifier and destroy
\* What load_identifier acquires: the descriptor of open, the mapping of
\* mmap, the message of langid__language_identifier__unpack, the malloc'ed
\* LanguageIdentifier and its two sets.
Resources == {"fd", "mmap", "msg", "lid", "sv", "fv"}

\* A table of the message: tk_nextmove flattened to rows of RowWidth entries.
Flat(t) ==
    [k \in 0..(Cardinality(DOMAIN t) * RowWidth - 1) |-> t[k \div RowWidth][k % RowWidth]]

\* The serialized form of a LanguageIdentifier's tables.
Message(t) ==
    [num_feats |-> t.num_feats, num_langs |-> t.num_langs, num_states |-> t.num_states,
     tk_nextmove |-> Flat(t.tk_nextmove),
     tk_output_c |-> t.tk_output_c, tk_output_s |-> t.tk_output_s,
     tk_output |-> t.tk_output,
     nb_pc |-> t.nb_pc, nb_ptc |-> t.nb_ptc, nb_classes |-> t.nb_classes]

\* The array a without its last n entries.
Short(a, n) == [k \in 0..(Cardinality(DOMAIN a) - 1 - n) |-> a[k]]

\* Messages a file can hold: a consistent one, and ones whose declared counts
\* and array lengths disagree. Each is well-formed on the wire.
Damages ==
    {"none", "short_nextmove", "short_output", "short_pc", "more_states", "more_langs"}

Damaged(m, d) ==
    CASE d = "short_nextmove" -> [m EXCEPT !.tk_nextmove = Short(@, RowWidth)]
      [] d = "short_output" -> [m EXCEPT !.tk_output = Short(@, 1)]
      [] d = "short_pc" -> [m EXCEPT !.nb_pc = Short(@, 1)]
      [] d = "more_states" -> [m EXCEPT !.num_states = @ + 1]
      [] d = "more_langs" -> [m EXCEPT !.num_langs = @ + 1]
      [] OTHER -> m

\* What a model path names: whether open succeeds, whether mmap succeeds,
\* whether the bytes unpack, and the message they unpack to.
Files ==
    { [given |-> TRUE, canOpen |-> o, canMap |-> mp, parses |-> ps,
       message |-> Damaged(Message(t), d)] :
          o \in BOOLEAN, mp \in BOOLEAN, ps \in BOOLEAN,
          t \in BuiltinTables, d \in Damages }

\* No model path: the built-in tables are used.
NoFile(t) ==
    [given |-> FALSE, canOpen |-> FALSE, canMap |-> FALSE, parses |-> FALSE,
     message |-> Message(t)]

Len0(a) == Cardinality(DOMAIN a)

\* Every table of message m has the length its declared counts ask for.
Consistent(m) ==
    /\ Len0(m.tk_nextmove) = m.num_states * RowWidth
    /\ Len0(m.tk_output_c) = m.num_states
    /\ Len0(m.tk_output_s) = m.num_states
    /\ \A s \in DOMAIN m.tk_output_c :
          s \in DOMAIN m.tk_output_s => m.tk_output_s[s] + m.tk_output_c[s] <= Len0(m.tk_output)
    /\ Len0(m.nb_pc) = m.num_langs
    /\ Len0(m.nb_ptc) = m.num_feats * m.num_langs
    /\ Len0(m.nb_classes) = m.num_langs

\* text_to_fv's first loop on the tables of m: every read of tk_nextmove
\* from t[i] on lies in the table, and every state added to sv lies in the
\* set's capacity num_states.
RECURSIVE WalkInBounds(_, _, _, _)
WalkInBounds(m, t, i, s) ==
    IF i > Len(t) THEN TRUE
    ELSE LET k == s * RowWidth + t[i]
         IN  /\ k \in DOMAIN m.tk_nextmove
             /\ m.tk_nextmove[k] < m.num_states
             /\ WalkInBounds(m, t, i + 1, m.tk_nextmove[k])

\* The states text_to_fv's first loop adds to sv, from t[i] on.
RECURSIVE Visited(_, _, _, _)
Visited(m, t, i, s) ==
    IF i > Len(t) THEN {}
    ELSE LET s2 == m.tk_nextmove[s * RowWidth + t[i]]
         IN  {s2} \cup Visited(m, t, i + 1, s2)

\* text_to_fv's second loop for state s: the reads of tk_output_c,
\* tk_output_s and tk_output lie in the tables, and every feature added to
\* fv lies in the set's capacity num_feats.
EmitInBounds(m, s) ==
    /\ s \in DOMAIN m.tk_output_c
    /\ s \in DOMAIN m.tk_output_s
    /\ \A j \in 0..(m.tk_output_c[s] - 1) :
          /\ (m.tk_output_s[s] + j) \in DOMAIN m.tk_output
          /\ m.tk_output[m.tk_output_s[s] + j] < m.num_feats

\* The features text_to_fv adds to fv for the visited states.
Emitted(m, states) ==
    UNION {{m.tk_output[m.tk_output_s[s] + j] : j \in 0..(m.tk_output_c[s] - 1)} : s \in states}

\* fv_to_logprob: the reads of nb_pc and nb_ptc lie in the tables.
ScoreInBounds(m, feats) ==
    /\ \A i \in 0..(m.num_langs - 1) : i \in DOMAIN m.nb_pc
    /\ \A f \in feats : \A j \in 0..(m.num_langs - 1) :
          (f * m.num_langs + j) \in DOMAIN m.nb_ptc

\* identify_logprobs on text t reads the tables of m within their lengths.
InBounds(m, t) ==
    /\ WalkInBounds(m, t, 1, 0)
    /\ \A s \in Visited(m, t, 1, 0) : EmitInBounds(m, s)
    /\ ScoreInBounds(m, Emitted(m, Visited(m, t, 1, 0)))

None == [r \in Resources |-> 0]

LifeInit ==
    /\ file \in Files \cup {NoFile(t) : t \in BuiltinTables}
    /\ pcL = "start"
    /\ msg = "NULL"
    /\ protobuf_model = "NULL"
    /\ acquired = None
    /\ released = None
    /\ oob = FALSE

Acquire(rs) == acquired' = [r \in Resources |-> acquired[r] + (IF r \in rs THEN 1 ELSE 0)]
Release(rs) == released' = [r \in Resources |-> released[r] + (IF r \in rs THEN 1 ELSE 0)]

\* get_default_identifier: the identifier and its sets are allocated, the
\* tables are the static ones.
GetDefaultIdentifier ==
    /\ pcL = "start"
    /\ ~file.given
    /\ Acquire({"lid", "sv", "fv"})
    /\ msg' = file.message
    /\ protobuf_model' = "NULL"
    /\ pcL' = "loaded"
    /\ UNCHANGED <<file, released, oob>>
    /\ UNCHANGED <<engVars, pureVars, concVars, grepVars>>

\* load_identifier(model_path).
LoadIdentifier ==
    /\ pcL = "start"
    /\ file.given
    /\ \/ \* open fails: exit(-1)
          /\ ~file.canOpen
          /\ pcL' = "exited"
          /\ UNCHANGED <<msg, protobuf_model, acquired>>
       \/ \* mmap fails and its result is not checked: unpack reads the
          \* MAP_FAILED address (a fault), or reads nothing of a zero-length
          \* file and returns NULL (exit(-1))
          /\ file.canOpen /\ ~file.canMap
          /\ Acquire({"fd"})
          /\ pcL' \in {"crashed", "exited"}
          /\ UNCHANGED <<msg, protobuf_model>>
       \/ \* unpack returns NULL: exit(-1)
          /\ file.canOpen /\ file.canMap /\ ~file.parses
          /\ Acquire({"fd", "mmap"})
          /\ pcL' = "exited"
          /\ UNCHANGED <<msg, protobuf_model>>
       \/ \* the message unpacks: its counts and arrays are taken as they are
          /\ file.canOpen /\ file.canMap /\ file.parses
          /\ Acquire({"fd", "mmap", "msg", "lid", "sv", "fv"})
          /\ msg' = file.message
          /\ protobuf_model' = "msg"
          /\ pcL' = "loaded"
    /\ UNCHANGED <<file, released, oob>>
    /\ UNCHANGED <<engVars, pureVars, concVars, grepVars>>

\* destroy_identifier(lid).
DestroyIdentifier ==
    /\ pcL = "loaded"
    /\ Release((IF protobuf_model # "NULL" THEN {"msg"} ELSE {}) \cup {"sv", "fv", "lid"})
    /\ pcL' = "destroyed"
    /\ UNCHANGED <<file, msg, protobuf_model, acquired, oob>>
    /\ UNCHANGED <<engVars, pureVars, concVars, grepVars>>

\* A classification call on the identifier: identify_logprobs(lid, t, ...).
Classify(t) ==
    /\ pcL = "loaded"
    /\ oob' = (oob \/ ~InBounds(msg, t))
    /\ UNCHANGED <<file, pcL, msg, protobuf_model, acquired, released>>
    /\ UNCHANGED <<engVars, pureVars, concVars, grepVars>>

SpecLifeInit == LifeInit /\ EngIdle /\ PureIdle /\ ConcIdle /\ GrepIdle

SpecLifeNext ==
    \/ GetDefaultIdentifier
    \/ LoadIdentifier
    \/ DestroyIdentifier
    \/ \E t \in Texts : Classify(t)

SpecLife == SpecLifeInit /\ [][SpecLifeNext]_vars

\* C7: load_identifier returns a LanguageIdentifier only when the path was
\* opened, the file was mapped, the message parsed and every table length
\* agrees with the declared counts; so no classification call on a returned
\* LanguageIdentifier reads a table out of bounds.
C7_LoadValidates ==
    /\ (pcL \in {"loaded", "destroyed"} /\ file.given) =>
          /\ file.canOpen
          /\ file.canMap
          /\ file.parses
          /\ Consistent(msg)
    /\ ~oob

\* C8: no resource is released more often than it was acquired, and once
\* destroy_identifier has run every resource the construction acquired (the
\* two sets, the identifier and, for a loaded one, the descriptor, the
\* mapping and the message) has been released exactly once; a built-in
\* identifier has no backing resource.
C8_Lifecycle ==
    pcL # "idle" =>
        /\ \A r \in Resources : released[r] <= acquired[r]
        /\ \A r \in Resources : acquired[r] <= 1
        /\ (pcL \in {"loaded", "destroyed"} /\ ~file.given) =>
              \A r \in {"fd", "mmap", "msg"} : acquired[r] = 0
        /\ pcL = "destroyed" => \A r \in Resources : released[r] = acquired[r]

\* ------------------------------------- logprob_to_pred_n and normalize
\* normalize_logprobs_n, first loop: the maximum from i on, max so far.
RECURSIVE MaxFrom(_, _, _, _)
MaxFrom(lp, n, i, max) ==
    IF i >= n THEN max
    ELSE MaxFrom(lp, n, i + 1, IF max < lp[i] THEN lp[i] ELSE max)

\* normalize_logprobs_n starting its maximum at 0 instead of logprobs[0].
normalize_logprobs_n_zero(lp, n) ==
    LET max == MaxFrom(lp, n, 0, 0)
    IN  [i \in DOMAIN lp |-> IF i < n THEN lp[i] - max ELSE lp[i]]

\* normalize_logprobs_n: the array after the call.
normalize_logprobs_n(lp, n) ==
    LET max == MaxFrom(lp, n, 1, lp[0])
    IN  [i \in DOMAIN lp |-> IF i < n THEN lp[i] - max ELSE lp[i]]

identify_normalize_logprobs(l, lp) == normalize_logprobs_n(lp, l.num_langs)

Vals == (-MaxVal)..MaxVal
Vectors == UNION {[0..(n - 1) -> Vals] : n \in 1..MaxLangs}
VecLen(v) == Cardinality(DOMAIN v)

PureInit ==
    /\ vec \in Vectors
    /\ orig = vec
    /\ before = vec
    /\ nnorm = 0
    /\ pop = "none"
    /\ pret = 0

\* The caller calls logprob_to_pred_n(vec, n).
Pred ==
    /\ pop' = "pred"
    /\ pret' = logprob_to_pred_n(vec, VecLen(vec))
    /\ UNCHANGED <<vec, orig, before, nnorm>>
    /\ UNCHANGED <<engVars, lifeVars, concVars, grepVars>>

\* The caller calls normalize_logprobs_n(vec, n), at most MaxNorm times.
MaxNorm == 2

Normalize ==
    /\ nnorm < MaxNorm
    /\ before' = vec
    /\ vec' = normalize_logprobs_n(vec, VecLen(vec))
    /\ nnorm' = nnorm + 1
    /\ pop' = "normalize"
    /\ UNCHANGED <<orig, pret>>
    /\ UNCHANGED <<engVars, lifeVars, concVars, grepVars>>

SpecPureInit == PureInit /\ EngIdle /\ LifeIdle /\ ConcIdle /\ GrepIdle

SpecPureNext == Pred \/ Normalize

SpecPure == SpecPureInit /\ [][SpecPureNext]_vars

\* C4: logprob_to_pred_n on an array of length n >= 1 returns an index m
\* with logprob[m] >= logprob[i] for every i and logprob[j] < logprob[m] for
\* every j < m: the lowest index of the maximum.
C4_Argmax ==
    pop = "pred" =>
        /\ pret \in DOMAIN vec
        /\ \A i \in DOMAIN vec : vec[pret] >= vec[i]
        /\ \A j \in DOMAIN vec : j < pret => vec[j] < vec[pret]

\* The maximum occurs twice and the lower index was returned.
C4_Witness ==
    /\ pop = "pred"
    /\ \E i \in DOMAIN vec : i > pret /\ vec[i] = vec[pret]
    /\ \E i \in DOMAIN vec : vec[i] < vec[pret]

\* C5: after normalize_logprobs_n the maximum entry is 0 and every entry is
\* <= 0, the pairwise differences and the argmax are those of the array
\* before the call, and a second application leaves the array as the first
\* left it.
C5_NormalizeIdempotent ==
    pop = "normalize" =>
        /\ DOMAIN vec = DOMAIN before
        /\ \E i \in DOMAIN vec : vec[i] = 0
        /\ \A i \in DOMAIN vec : vec[i] <= 0
        /\ \A i, j \in DOMAIN vec : vec[i] - vec[j] = before[i] - before[j]
        /\ logprob_to_pred_n(vec, VecLen(vec)) = logprob_to_pred_n(before, VecLen(before))
        /\ nnorm >= 2 => vec = before

\* normalize_logprobs_n applied twice to an array it changed.
C5_Witness ==
    /\ pop = "normalize"
    /\ nnorm = 2
    /\ vec # orig
    /\ \E i \in DOMAIN vec : vec[i] < 0

\* ------------------------------------------------ two concurrent callers
Callers == {1, 2}

\* The texts of the concurrent callers: over the bytes 0 and 1.
ConcTexts == {t \in Texts : Len(t) <= MaxConcLen /\ \A i \in 1..Len(t) : t[i] <= 1}

\* The tables the concurrent callers share.
ConcTables == {t \in BuiltinTables : t.num_feats = 2 /\ t.num_states = 2}

\* Every caller uses the sets of the first LanguageIdentifier.
SetOfFirst(p) == 1

\* The LanguageIdentifier whose sets lid->sv and lid->fv caller p hands to
\* text_to_fv and fv_to_logprob: its own, or the single one.
SetOf(p) == IF cmode = "own" THEN p ELSE 1

\* The feature counts of a set, as fv_to_logprob reads them.
Counts(l, fset) == [f \in Features(l) |-> get(fset, f)]

ConcInit ==
    /\ lid \in ConcTables
    /\ cmode \in {"own", "mutex", "shared"}
    /\ ctext \in [Callers -> ConcTexts]
    /\ cpc = [p \in Callers |-> "idle"]
    /\ ci = [p \in Callers |-> 0]
    /\ cj = [p \in Callers |-> 0]
    /\ cs = [p \in Callers |-> 0]
    /\ csv = [k \in Callers |-> alloc_set(lid.num_states, 0)]
    /\ cfv = [k \in Callers |-> alloc_set(lid.num_feats, 0)]
    /\ clogprobs = [p \in Callers |-> [i \in Langs(lid) |-> 0]]
    /\ cseen = [p \in Callers |-> [f \in Features(lid) |-> 0]]
    /\ lock = 0
    /\ sv = <<>>
    /\ fv = <<>>
    /\ logprobs = <<>>
    /\ text = <<>>
    /\ op = "none"
    /\ ret = 0

concFrame == <<lid, sv, fv, logprobs, text, op, ret, cmode, ctext>>

\* Caller p enters identify_logprobs; under "mutex" it takes the lock first.
CBegin(p) ==
    /\ cpc[p] = "idle"
    /\ IF cmode = "mutex" THEN lock = 0 /\ lock' = p ELSE UNCHANGED lock
    /\ cpc' = [cpc EXCEPT ![p] = "clear_sv"]
    /\ UNCHANGED <<ci, cj, cs, csv, cfv, clogprobs, cseen>>
    /\ UNCHANGED <<concFrame, pureVars, lifeVars, grepVars>>

\* text_to_fv: clear(sv).
CClearSv(p) ==
    /\ cpc[p] = "clear_sv"
    /\ csv' = [csv EXCEPT ![SetOf(p)] = clear(@)]
    /\ cpc' = [cpc EXCEPT ![p] = "clear_fv"]
    /\ UNCHANGED <<ci, cj, cs, cfv, clogprobs, cseen, lock>>
    /\ UNCHANGED <<concFrame, pureVars, lifeVars, grepVars>>

\* text_to_fv: clear(fv), then i = 0 and s = 0.
CClearFv(p) ==
    /\ cpc[p] = "clear_fv"
    /\ cfv' = [cfv EXCEPT ![SetOf(p)] = clear(@)]
    /\ cpc' = [cpc EXCEPT ![p] = "walk"]
    /\ ci' = [ci EXCEPT ![p] = 0]
    /\ cs' = [cs EXCEPT ![p] = 0]
    /\ UNCHANGED <<cj, csv, clogprobs, cseen, lock>>
    /\ UNCHANGED <<concFrame, pureVars, lifeVars, grepVars>>

\* text_to_fv, first loop: one iteration (a transition and add(sv, s, 1)),
\* or the loop's end.
CWalk(p) ==
    /\ cpc[p] = "walk"
    /\ IF ci[p] < Len(ctext[p])
       THEN LET s2 == lid.tk_nextmove[cs[p]][ctext[p][ci[p] + 1]]
            IN  /\ cs' = [cs EXCEPT ![p] = s2]
                /\ csv' = [csv EXCEPT ![SetOf(p)] = add(@, s2, 1)]
                /\ ci' = [ci EXCEPT ![p] = @ + 1]
                /\ UNCHANGED <<cpc, cj>>
       ELSE /\ cpc' = [cpc EXCEPT ![p] = "convert"]
            /\ ci' = [ci EXCEPT ![p] = 0]
            /\ cj' = [cj EXCEPT ![p] = 0]
            /\ UNCHANGED <<cs, csv>>
    /\ UNCHANGED <<cfv, clogprobs, cseen, lock>>
    /\ UNCHANGED <<concFrame, pureVars, lifeVars, grepVars>>

\* text_to_fv, second loop: one add(fv, feature, sv->counts[i]), the end of
\* the inner loop, or the end of the outer loop.
CConvert(p) ==
    /\ cpc[p] = "convert"
    /\ LET set == csv[SetOf(p)]
       IN  IF ci[p] < set.members
           THEN LET m == set.dense[ci[p]]
                IN  IF cj[p] < lid.tk_output_c[m]
                    THEN /\ cfv' = [cfv EXCEPT ![SetOf(p)] =
                                add(@, lid.tk_output[lid.tk_output_s[m] + cj[p]], set.counts[ci[p]])]
                         /\ cj' = [cj EXCEPT ![p] = @ + 1]
                         /\ UNCHANGED <<cpc, ci>>
                    ELSE /\ ci' = [ci EXCEPT ![p] = @ + 1]
                         /\ cj' = [cj EXCEPT ![p] = 0]
                         /\ UNCHANGED <<cpc, cfv>>
           ELSE /\ cpc' = [cpc EXCEPT ![p] = "score"]
                /\ UNCHANGED <<ci, cj, cfv>>
    /\ UNCHANGED <<cs, csv, clogprobs, cseen, lock>>
    /\ UNCHANGED <<concFrame, pureVars, lifeVars, grepVars>>

\* fv_to_logprob into the caller's array; under "mutex" the lock is released
\* after it.
CScore(p) ==
    /\ cpc[p] = "score"
    /\ clogprobs' = [clogprobs EXCEPT ![p] = fv_to_logprob(lid, cfv[SetOf(p)])]
    /\ cseen' = [cseen EXCEPT ![p] = Counts(lid, cfv[SetOf(p)])]
    /\ cpc' = [cpc EXCEPT ![p] = "done"]
    /\ lock' = IF cmode = "mutex" THEN 0 ELSE lock
    /\ UNCHANGED <<ci, cj, cs, csv, cfv>>
    /\ UNCHANGED <<concFrame, pureVars, lifeVars, grepVars>>

SpecConcInit == ConcInit /\ PureIdle /\ LifeIdle /\ GrepIdle

SpecConcNext ==
    \E p \in Callers :
        \/ CBegin(p)
        \/ CClearSv(p)
        \/ CClearFv(p)
        \/ CWalk(p)
        \/ CConvert(p)
        \/ CScore(p)

SpecConc == SpecConcInit /\ [][SpecConcNext]_vars

\* What caller p's call gives when it runs alone.
Alone(p) ==
    identify_logprobs(lid, ctext[p], alloc_set(lid.num_states, 0), alloc_set(lid.num_feats, 0))

\* Caller p's finished call differs from the call run alone.
Differs(p) ==
    /\ cpc[p] = "done"
    /\ \/ clogprobs[p] # Alone(p).logprobs
       \/ cseen[p] # Counts(lid, Alone(p).fv)

\* C9: with a LanguageIdentifier per caller over the same tables, or with a
\* lock around the single one, every interleaving of the two calls'
\* accumulator operations gives each call the feature counts and the
\* log-probabilities it gives when run alone, and the tables stay as they
\* were; two callers of one LanguageIdentifier without a lock can reach an
\* interleaving where a call's result differs (C9_Interference).
C9_Isolation ==
    cmode # "none" =>
        /\ lid \in ConcTables
        /\ cmode \in {"own", "mutex"} => \A p \in Callers : ~Differs(p)
        /\ cmode = "mutex" =>
              \A p, q \in Callers :
                  (p # q /\ cpc[p] \notin {"idle", "done"}) => cpc[q] \in {"idle", "done"}

\* Two callers of one LanguageIdentifier without a lock: a finished call
\* whose feature counts or log-probabilities differ from the call run alone.
C9_Interference ==
    /\ cmode = "shared"
    /\ \E p \in Callers : Differs(p)

\* ------------------------------------------------- the driver, grep mode
\* The character of C string a at position i (from 1): NUL at its end.
CharAt(a, i) == IF i <= Len(a) THEN a[i] ELSE "NUL"

\* strcmp(a, b) == 0, comparing from position i on.
RECURSIVE SameFrom(_, _, _)
SameFrom(a, b, i) ==
    IF CharAt(a, i) # CharAt(b, i) THEN FALSE
    ELSE IF CharAt(a, i) = "NUL" THEN TRUE
    ELSE SameFrom(a, b, i + 1)

\* get_lang_index, the loop from i on.
RECURSIVE IndexFrom(_, _, _)
IndexFrom(l, name, i) ==
    IF i = l.num_langs THEN NOT_FOUND
    ELSE IF SameFrom(l.nb_classes[i], name, 1) THEN i
    ELSE IndexFrom(l, name, i + 1)

\* get_lang_index comparing only the first strlen(name) characters.
RECURSIVE IndexFromPrefix(_, _, _)
IndexFromPrefix(l, name, i) ==
    IF i = l.num_langs THEN NOT_FOUND
    ELSE IF SubSeq(l.nb_classes[i], 1, Len(name)) = name THEN i
    ELSE IndexFromPrefix(l, name, i + 1)

get_lang_index_prefix(l, name) == IndexFromPrefix(l, name, 0)

get_lang_index(l, name) == IndexFrom(l, name, 0)

\* The lines the input files hold: a line is its bytes, at least one.
GrepLines == {<<0>>, <<1>>, <<1, 1>>}

\* A char* that is NULL.
NoName == <<>>

\* The values of -e and -I on the command line.
EnNames == { <<"e", "n">>, <<"E", "N">> }
FlangNames == { NoName, <<"e">>, <<"d", "e">> }

\* The option globals after getopt in grep mode: -e, -I, -L (p_flag with
\* min_logprob in the units of the model's log-probabilities), -v, -i, -o
\* and -j; no -m, -d or -D.
Options ==
    { [en |-> e, flang |-> f, p_flag |-> p, min_logprob |-> -1, verbose |-> v,
       fin |-> io[1], fout |-> io[2], freject |-> j] :
          e \in EnNames, f \in FlangNames, p \in BOOLEAN, v \in 0..1,
          io \in {<<FALSE, FALSE>>, <<TRUE, TRUE>>, <<TRUE, FALSE>>}, j \in BOOLEAN }

\* The tables the driver's identifier is built over.
GrepTables == {t \in BuiltinTables : t.num_feats = 2 /\ t.num_langs + t.num_states = 5}

GrepInit ==
    /\ opt \in Options
    /\ \E tables \in GrepTables : get_default_identifier(tables, 0)
    /\ logprobs = [i \in Langs(lid) |-> 0]
    /\ text = <<>>
    /\ op = "none"
    /\ ret = 0
    /\ en_index = NOT_FOUND
    /\ f_index = NOT_FOUND
    /\ gpc = "init"
    /\ total = 0
    /\ filtered = 0
    /\ inRead = 0
    /\ inEof = FALSE
    /\ detectout = <<>>
    /\ out = <<>>
    /\ rejectout = <<>>
    /\ indexed = {}

\* FILE *in is open: -i and -o were both given.
InOpen == opt.fin /\ opt.fout

\* FILE *reject is open: -j was given.
RejectOpen == opt.freject

\* init(): the indices of en and flang; exit(-1) when only one of -i and -o
\* is given or -I is given without -i.
DriverInit ==
    /\ gpc = "init"
    /\ en_index' = get_lang_index(lid, opt.en)
    /\ IF opt.fin # opt.fout \/ (opt.flang # NoName /\ ~opt.fin)
       THEN gpc' = "exit" /\ UNCHANGED f_index
       ELSE /\ gpc' = "loop"
            /\ f_index' = IF opt.flang # NoName THEN get_lang_index(lid, opt.flang)
                          ELSE f_index
    /\ UNCHANGED <<opt, total, filtered, inRead, inEof, detectout, out, rejectout, indexed>>
    /\ UNCHANGED <<engVars, pureVars, lifeVars, concVars>>

\* What likely_enough reads and writes besides the options: the scratch sets,
\* the logprobs global, filtered, the -j file and the indices read.
Machine ==
    [sv |-> sv, fv |-> fv, logprobs |-> logprobs, filtered |-> filtered,
     rejectout |-> rejectout, indexed |-> indexed]

\* likely_enough(lang, lang_index) with line txt in the text buffer and tot
\* lines read; tag names the line. lpper is logprobs[lang_index] / textlen,
\* so lpper >= min_logprob is logprobs[lang_index] >= min_logprob * textlen.
likely_enough(m, lang_index, txt, tot, tag) ==
    IF lang_index = UINT_MAX
    THEN [enough |-> TRUE, m |-> m]
    ELSE LET r       == identify_logprobs(lid, txt, m.sv, m.fv)
             likely  == likeliest(lid, r.logprobs)
             norm    == normalize_logprobs_n(r.logprobs, lid.num_langs)
             textlen == Len(txt)
             enough  == /\ textlen # 0
                        /\ \/ likely.i = lang_index
                           \/ opt.p_flag /\ norm[lang_index] >= opt.min_logprob * textlen
             printed == enough /\ opt.verbose >= 1
         IN  [enough |-> enough,
              m |-> [sv |-> r.sv, fv |-> r.fv, logprobs |-> norm,
                     filtered |-> IF printed THEN m.filtered
                                  ELSE (m.filtered + 1) % UINT_MOD,
                     rejectout |-> IF ~printed /\ RejectOpen
                                   THEN Append(m.rejectout, tag) ELSE m.rejectout,
                     indexed |-> m.indexed \cup {lang_index}]]

\* The machine after a call of likely_enough becomes the state.
Store(m) ==
    /\ sv' = m.sv
    /\ fv' = m.fv
    /\ logprobs' = m.logprobs
    /\ filtered' = m.filtered
    /\ rejectout' = m.rejectout
    /\ indexed' = m.indexed

\* One iteration of main's grep loop: a line of the main input is read and
\* judged; with an -i file, a line of it is read, and judged when the main
\* line was kept.
GrepLine(line) ==
    /\ gpc = "loop"
    /\ total < MaxLines
    /\ total' = total + 1
    /\ LET r1 == likely_enough(Machine, en_index, line, total + 1, <<"main", total + 1>>)
       IN  IF r1.enough
           THEN IF InOpen
                THEN /\ detectout' = Append(detectout, total + 1)
                     /\ \/ \* gotline(in) reads a line
                           /\ ~inEof
                           /\ \E line2 \in GrepLines :
                                 LET r2 == likely_enough(r1.m, f_index, line2, total + 1,
                                                         <<"in", inRead + 1>>)
                                 IN  /\ Store(r2.m)
                                     /\ text' = line2
                                     /\ out' = IF r2.enough THEN Append(out, inRead + 1) ELSE out
                           /\ inRead' = inRead + 1
                           /\ UNCHANGED <<inEof, gpc>>
                        \/ \* the -i file has ended: error("-i file had too few lines")
                           /\ Store(r1.m)
                           /\ text' = line
                           /\ inEof' = TRUE
                           /\ gpc' = "exit"
                           /\ UNCHANGED <<out, inRead>>
                ELSE /\ detectout' = Append(detectout, total + 1)
                     /\ Store(r1.m)
                     /\ text' = line
                     /\ UNCHANGED <<out, inRead, inEof, gpc>>
           ELSE /\ Store(r1.m)
                /\ IF InOpen
                   THEN \/ /\ ~inEof
                           /\ \E line2 \in GrepLines : text' = line2
                           /\ inRead' = inRead + 1
                           /\ UNCHANGED inEof
                        \/ /\ text' = line
                           /\ inEof' = TRUE
                           /\ UNCHANGED inRead
                   ELSE /\ text' = line
                        /\ UNCHANGED <<inRead, inEof>>
                /\ UNCHANGED <<detectout, out, gpc>>
    /\ UNCHANGED <<lid, op, ret, opt, en_index, f_index>>
    /\ UNCHANGED <<pureVars, lifeVars, concVars>>

\* The main input has ended: the loop is left, destroy_identifier frees the
\* two sets and the struct (lid keeps naming the static tables), the files
\* are closed with what was written to them, and main returns.
GrepEof ==
    /\ gpc = "loop"
    /\ gpc' = "done"
    /\ sv' = <<>>
    /\ fv' = <<>>
    /\ UNCHANGED <<lid, logprobs, text, op, ret>>
    /\ UNCHANGED <<opt, en_index, f_index, total, filtered, inRead, inEof,
                   detectout, out, rejectout, indexed>>
    /\ UNCHANGED <<pureVars, lifeVars, concVars>>

SpecGrepInit == GrepInit /\ PureIdle /\ LifeIdle /\ ConcIdle

SpecGrepNext ==
    \/ DriverInit
    \/ \E line \in GrepLines : GrepLine(line)
    \/ GrepEof

SpecGrep == SpecGrepInit /\ [][SpecGrepNext]_vars

\* ------------------------------------------------------------ the engine
SpecEngInit == EngInit /\ PureIdle /\ LifeIdle /\ ConcIdle /\ GrepIdle

Init == SpecEngInit

Next ==
    \/ \E t \in Texts : IdentifyLogprobs(t)
    \/ \E t \in Texts : IdentifyIndex(t)
    \/ \E t \in Texts : Identify(t)

Spec == Init /\ [][Next]_vars

\* ------------------------------------------------- claims on the engine
\* What a call o on text t gives on a LanguageIdentifier whose scratch sets
\* were just allocated (holding g).
FreshCall(l, o, t, g) ==
    LET r  == identify_logprobs(l, t, alloc_set(l.num_states, g), alloc_set(l.num_feats, g))
        lp == r.logprobs
    IN  [logprobs |-> lp,
         ret |-> CASE o = "identify_index" -> logprob_to_pred(l, lp)
                   [] o = "identify" -> get_lang_name(l, logprob_to_pred(l, lp))
                   [] OTHER -> 0]

\* C1: after any sequence of identify, identify_index and identify_logprobs
\* calls on one LanguageIdentifier, the last call has returned (and written
\* to its logprobs array) exactly what the same call on the same text
\* gives on a freshly constructed LanguageIdentifier: no count of an earlier
\* call survives in the scratch sets.
C1_Determinism ==
    op # "none" =>
        \A g \in Garbage :
            LET fresh == FreshCall(lid, op, text, g)
            IN  /\ logprobs = fresh.logprobs
                /\ ret = fresh.ret

\* A call on a non-empty text whose state set still holds, past its
\* members, an entry written by an earlier call.
C1_Witness ==
    /\ op = "identify"
    /\ text # <<>>
    /\ \E i \in DOMAIN sv.counts : i >= sv.members /\ sv.counts[i] \notin Garbage

\* The automaton's state after consuming t[1..i] from state 0.
RECURSIVE StateAfter(_, _, _)
StateAfter(l, t, i) ==
    IF i = 0 THEN 0 ELSE l.tk_nextmove[StateAfter(l, t, i - 1)][t[i]]

\* The positions k of state s's emission range that list feature f.
ListingPositions(l, s, f) ==
    {k \in 0..(l.tk_output_c[s] - 1) : l.tk_output[l.tk_output_s[s] + k] = f}

\* The pairs (i, k): i a position of the text, k a position of the emission
\* range of the state reached after t[1..i] that lists f.
Pairs(l, t, f) ==
    UNION {{<<i, k>> : k \in ListingPositions(l, StateAfter(l, t, i), f)} : i \in 1..Len(t)}

\* C2: after text_to_fv the feature set holds, for each feature f, the
\* number of pairs (i, k) with k a position listing f in the emission range
\* of the state reached after text[0..i]; f is active exactly when some
\* visited state lists it, each active feature has one entry, and a text of
\* length 0 leaves the feature set empty.
C2_Extract ==
    op # "none" =>
        /\ \A f \in Features(lid) :
              /\ get(fv, f) = Cardinality(Pairs(lid, text, f))
              /\ IsActive(fv, f) <=>
                    \E i \in 1..Len(text) : ListingPositions(lid, StateAfter(lid, text, i), f) # {}
        /\ fv.members = Cardinality({f \in Features(lid) : IsActive(fv, f)})
        /\ text = <<>> => fv.members = 0

\* A feature counted twice or more and listed by two different visited states.
C2_Witness ==
    /\ op # "none"
    /\ \E f \in Features(lid) :
          /\ get(fv, f) >= 2
          /\ \E i, j \in 1..Len(text) :
                /\ StateAfter(lid, text, i) # StateAfter(lid, text, j)
                /\ ListingPositions(lid, StateAfter(lid, text, i), f) # {}
                /\ ListingPositions(lid, StateAfter(lid, text, j), f) # {}

\* The sum over the features f, f+1, ... of count * likelihood for lang.
RECURSIVE Evidence(_, _, _, _)
Evidence(l, fset, lang, f) ==
    IF f >= l.num_feats THEN 0
    ELSE (IF IsActive(fset, f) THEN get(fset, f) * l.nb_ptc[f * l.num_langs + lang] ELSE 0)
         + Evidence(l, fset, lang, f + 1)

\* C3: after fv_to_logprob, logprob[lang] is prior[lang] plus the sum over
\* the active features of count * likelihood[feat * num_langs + lang]; with
\* an empty feature set logprob is the prior, and identify on the empty text
\* returns the name of a language whose prior is maximal.
C3_Score ==
    op # "none" =>
        /\ DOMAIN logprobs = Langs(lid)
        /\ \A lang \in Langs(lid) :
              logprobs[lang] = lid.nb_pc[lang] + Evidence(lid, fv, lang, 0)
        /\ fv.members = 0 => logprobs = lid.nb_pc
        /\ (op = "identify" /\ text = <<>>) =>
              \E m \in Langs(lid) :
                  /\ ret = lid.nb_classes[m]
                  /\ \A i \in Langs(lid) : lid.nb_pc[m] >= lid.nb_pc[i]

\* A scored feature set with two active features, one counted twice.
C3_Witness ==
    /\ op = "identify_logprobs"
    /\ fv.members = 2
    /\ \E f \in Features(lid) : get(fv, f) >= 2


\* ------------------------------------------------------- claims, the driver
\* The index at which name stands among the class names of l, NOT_FOUND
\* when it equals none of them.
Position(l, name) ==
    IF \E i \in Langs(l) : l.nb_classes[i] = name
    THEN CHOOSE i \in Langs(l) : l.nb_classes[i] = name
    ELSE NOT_FOUND

\* C6: get_lang_index returns i for the i-th class name and (LangIndex)-1 for
\* a name that equals no class name, exact and case-sensitive; (LangIndex)-1
\* is not below num_langs; the driver's en_index and f_index are what the
\* lookup gives, and likely_enough reads logprobs only at indices below
\* num_langs, never at (LangIndex)-1.
C6_Lookup ==
    gpc \in {"init", "loop", "done", "exit"} =>
        /\ \A i \in Langs(lid) : get_lang_index(lid, lid.nb_classes[i]) = i
        /\ \A name \in EnNames \cup (FlangNames \ {NoName}) :
              get_lang_index(lid, name) = Position(lid, name)
        /\ ~(NOT_FOUND < lid.num_langs)
        /\ gpc # "init" => en_index = Position(lid, opt.en)
        /\ gpc \in {"loop", "done"} =>
              f_index = IF opt.flang = NoName THEN NOT_FOUND
                        ELSE Position(lid, opt.flang)
        /\ NOT_FOUND \notin indexed
        /\ indexed \subseteq Langs(lid)

\* The loop has run with -e naming no class and -I naming one: every main
\* line was kept without a lookup at en_index, and the -i lines were judged.
C6_Witness ==
    /\ gpc = "done"
    /\ total >= 1
    /\ en_index = NOT_FOUND
    /\ f_index \in Langs(lid)
    /\ Position(lid, opt.flang) = 1
    /\ indexed = {f_index}
    /\ Len(detectout) = total

\* C10: with -i and -o, in a run that has not stopped on an error, one -i
\* line has been read for every main line while the -i file lasts, and the
\* lines written to the -o file are those whose main line was written to
\* the main output.
C10_CoFilter ==
    (gpc \in {"loop", "done"} /\ InOpen) =>
        /\ ~inEof => inRead = total
        /\ out = detectout


\* The lines for which likely_enough has returned false, in a run that has
\* not stopped on an error: the main lines not written to the main output
\* and, with an -i file, the -i lines whose main line was written and which
\* were not written to the -o file.
Written(f) == {f[k] : k \in 1..Len(f)}

RejectedLines ==
    {<<"main", k>> : k \in (1..total) \ Written(detectout)}
        \cup (IF InOpen
              THEN {<<"in", k>> : k \in Written(detectout) \ Written(out)}
              ELSE {})

\* C11: at every verbose level, filtered is the number of lines for which
\* likely_enough returned false, and with -j the reject file holds those
\* lines and no line that was kept.
C11_Reject ==
    gpc \in {"loop", "done"} =>
        /\ filtered = Cardinality(RejectedLines)
        /\ RejectOpen => Written(rejectout) = RejectedLines
        /\ ~RejectOpen => rejectout = <<>>

====
